---- MODULE Spec2Model ----
(***************************************************************************)
(* Model of the bike-sharing analysis repository:                          *)
(*   main.py                 script flow: BikeDataLoader, BikeAnalyzer     *)
(*   src/data_loader.py      BikeDataLoader.load_and_clean                 *)
(*   src/analysis.py         BikeAnalyzer (SQLite query, pandas group-by)  *)
(*   thesis_analysis.py      BikeDataPipeline and its script flow          *)
(*                                                                         *)
(* Numbers: the normalised columns temp, hum, windspeed are kept in        *)
(* hundredths (0.24 is 24), so temp_c = temp * 41 is in hundredths too.    *)
(* Means are exact fractions <<numerator, denominator>> in lowest terms.   *)
(* A missing cell (NaN / NULL) is the empty tuple, a present cell v is     *)
(* <<v>>.                                                                  *)
(***************************************************************************)
EXTENDS Integers, Sequences, FiniteSets, Bags, TLC

VARIABLES
    \* ---- the environment: files on disk, fixed during a run ----
    hourlyExists,   \* os.path.exists(hourly_path)
    raw,            \* rows of the hourly CSV as pd.read_csv returns them
    outputDir,      \* the directory 'output' exists
    unwritable,     \* chart paths plt.savefig cannot write
    tripsPath,      \* BikeDataPipeline.trips_path: "None" or "trips.csv"
    tripsExists,    \* os.path.exists('trips.csv')
    trips,          \* bag of the "Start Station" cells of the trips rows
    colorArg,       \* thesis_analysis.py line 102: "missing" as the file
                    \* stands (color=) is a SyntaxError), "given" when the
                    \* argument is completed
    \* ---- main.py ----
    mpc, merr, mdf, mdb, mTemporal, mWeather,
    \* ---- thesis_analysis.py ----
    tpc, terr, tdf, tdb, tTemporal, tWeather, spatialStatus, spatialResult,
    \* ---- effects ----
    files,          \* chart files written so far
    calls           \* how many times each step has been entered

envVars == <<hourlyExists, raw, outputDir, unwritable, tripsPath, tripsExists,
             trips, colorArg>>
mainVars == <<mpc, merr, mdf, mdb, mTemporal, mWeather>>
thesisVars == <<tpc, terr, tdf, tdb, tTemporal, tWeather, spatialStatus,
                spatialResult>>
vars == <<envVars, mainVars, thesisVars, files, calls>>

----------------------------------------------------------------------------
\* Bounds of the model

MaxRows == 3        \* longest hourly table
MaxTrips == 7       \* most rows of the trips file
NumStations == 6    \* distinct station names in the trips file

----------------------------------------------------------------------------
\* Values

None == "None"          \* Python None where the other values are strings
\* an attribute or local that holds a table is << >> while unset (None) and
\* <<t>> once it holds the table t
Unset == << >>
Some(t) == <<t>>
Get(o) == o[1]
NaN == << >>
Present(c) == c # NaN
Val(c) == c[1]

WorkingDay == "Working Day"
WeekendHoliday == "Weekend/Holiday"

\* Byte order of the two labels (SQLite BINARY collation):
\* "Weekend/Holiday" < "Working Day" because 'e' < 'o' at the second letter.
StrRank(s) == IF s = WeekendHoliday THEN 0 ELSE 1

TemporalPng == "output/temporal_analysis.png"
UserPng == "output/user_analysis.png"
VizTemporalPng == "viz_temporal_patterns.png"
VizWeatherPng == "viz_weather_impact.png"
Paths == {TemporalPng, UserPng, VizTemporalPng, VizWeatherPng}

Steps == {"load_and_clean", "_setup_db", "plot_temporal_trends",
          "plot_user_segmentation", "process_data", "run_temporal_analysis",
          "run_weather_impact_study", "run_spatial_analysis"}

RECURSIVE GCD(_, _)
GCD(a, b) == IF b = 0 THEN a ELSE GCD(b, a % b)

\* sum / n as an exact fraction in lowest terms (n > 0)
Frac(sum, n) == LET g == GCD(sum, n) IN IF g = 0 THEN <<0, 1>> ELSE <<sum \div g, n \div g>>

----------------------------------------------------------------------------
\* pd.to_datetime on the date strings of the model; << >> is a parse failure
ParseDate(s) ==
    CASE s = "2011-01-01" -> <<2011, 1, 1>>
      [] s = "2012-12-31" -> <<2012, 12, 31>>
      [] OTHER -> << >>

\* DataFrame.to_sql stores a datetime64 cell as a timestamp y-m-d 00:00:00
SqlTimestamp(d) == d \o <<0, 0, 0>>

----------------------------------------------------------------------------
\* BikeDataLoader.load_and_clean, lines 21-42, on the rows read at line 19

\* lines 22-28: rename_map applied to one row (temp, windspeed, casual and
\* registered are not in the map and keep their names)
RenameLoader(r) ==
    [date |-> r.dteday, year |-> r.yr, month |-> r.mnth, hour |-> r.hr,
     weather_code |-> r.weathersit, total_rentals |-> r.cnt,
     humidity_norm |-> r.hum, feel_temp_norm |-> r.atemp,
     is_working_day |-> r.workingday,
     temp |-> r.temp, windspeed |-> r.windspeed,
     casual |-> r.casual, registered |-> r.registered]

\* a label by truthiness (if x) instead of x == 1: NaN is truthy
LoaderLabelTruthy(x) == IF x # <<0>> THEN WorkingDay ELSE WeekendHoliday

\* lines 40-42: lambda x: 'Working Day' if x == 1 else 'Weekend/Holiday'
\* (NaN == 1 is False)
LoaderLabel(x) == IF Present(x) /\ Val(x) = 1 THEN WorkingDay ELSE WeekendHoliday

\* line 35
TempC(temp) == temp * 41
\* line 36
HumidityReal(humidity_norm) == humidity_norm * 100
\* the wind speed scaled by the temperature constant
WindSpeedRealBy41(windspeed) == windspeed * 41

\* line 37
WindSpeedReal(windspeed) == windspeed * 67

\* lines 31-42 on one renamed row
DeriveLoader(q) ==
    [date |-> ParseDate(q.date), year |-> q.year, month |-> q.month,
     hour |-> q.hour, weather_code |-> q.weather_code,
     total_rentals |-> q.total_rentals, humidity_norm |-> q.humidity_norm,
     feel_temp_norm |-> q.feel_temp_norm, is_working_day |-> q.is_working_day,
     temp |-> q.temp, windspeed |-> q.windspeed,
     casual |-> q.casual, registered |-> q.registered,
     temp_c |-> TempC(q.temp),
     humidity_real |-> HumidityReal(q.humidity_norm),
     wind_speed_real |-> WindSpeedReal(q.windspeed),
     day_type |-> LoaderLabel(q.is_working_day)]

\* pd.to_datetime raises when a cell does not parse
DatesParse(rows) == \A i \in 1..Len(rows) : ParseDate(rows[i].dteday) # << >>

\* a loader that drops the rows with a missing working-day flag (dropna)
LoaderCleanDropna(rows) ==
    LET kept == SelectSeq(rows, LAMBDA r : Present(r.workingday))
    IN [i \in 1..Len(kept) |-> DeriveLoader(RenameLoader(kept[i]))]

\* lines 21-42 on the whole frame
LoaderClean(rows) == [i \in 1..Len(rows) |-> DeriveLoader(RenameLoader(rows[i]))]

\* BikeAnalyzer._setup_db: df.to_sql('rentals', ...)
AnalyzerToSql(df) ==
    [i \in 1..Len(df) |-> [df[i] EXCEPT !.date = SqlTimestamp(@)]]

----------------------------------------------------------------------------
\* BikeDataPipeline.process_data, lines 42-64

\* lines 44-49: column_map has no entry for workingday
RenamePipeline(r) ==
    [date |-> r.dteday, year |-> r.yr, month |-> r.mnth, hour |-> r.hr,
     weather_code |-> r.weathersit, total_rentals |-> r.cnt,
     humidity_norm |-> r.hum, feel_temp_norm |-> r.atemp,
     workingday |-> r.workingday,
     temp |-> r.temp, windspeed |-> r.windspeed,
     casual |-> r.casual, registered |-> r.registered]

\* the flag compared with the text '1': no cell of an integer column equals it
PipelineLabelText(x) == WeekendHoliday

\* lines 59-61
PipelineLabel(x) == IF Present(x) /\ Val(x) = 1 THEN WorkingDay ELSE WeekendHoliday

\* lines 54-61 on one renamed row; the date column stays the CSV string
DerivePipeline(q) ==
    [date |-> q.date, year |-> q.year, month |-> q.month,
     hour |-> q.hour, weather_code |-> q.weather_code,
     total_rentals |-> q.total_rentals, humidity_norm |-> q.humidity_norm,
     feel_temp_norm |-> q.feel_temp_norm, workingday |-> q.workingday,
     temp |-> q.temp, windspeed |-> q.windspeed,
     casual |-> q.casual, registered |-> q.registered,
     temp_c |-> q.temp * 41,
     humidity_real |-> q.humidity_norm * 100,
     wind_speed_real |-> q.windspeed * 67,
     day_type |-> PipelineLabel(q.workingday)]

PipelineClean(rows) == [i \in 1..Len(rows) |-> DerivePipeline(RenamePipeline(rows[i]))]

\* line 64: df.to_sql('rentals', ...); every column is an integer, a float
\* or text and is stored as it is
PipelineToSql(df) == df

----------------------------------------------------------------------------
\* SELECT hour, day_type, AVG(total_rentals) FROM rentals
\* GROUP BY hour, day_type ORDER BY day_type, hour

\* GROUP BY: one accumulator [hour, day_type, sum, n] per distinct key
RECURSIVE GroupByHourDayType(_, _)
GroupByHourDayType(t, acc) ==
    IF t = << >> THEN acc
    ELSE LET r == Head(t)
             hit == {i \in 1..Len(acc) :
                        acc[i].hour = r.hour /\ acc[i].day_type = r.day_type}
         IN IF hit = {}
            THEN GroupByHourDayType(Tail(t),
                    Append(acc, [hour |-> r.hour, day_type |-> r.day_type,
                                 sum |-> r.total_rentals, n |-> 1]))
            ELSE LET i == CHOOSE j \in hit : TRUE
                 IN GroupByHourDayType(Tail(t),
                        [acc EXCEPT ![i].sum = @ + r.total_rentals,
                                    ![i].n = @ + 1])

\* ORDER BY hour, day_type: the two sort keys exchanged
OrderByHourDayType(a, b) ==
    \/ a.hour < b.hour
    \/ /\ a.hour = b.hour
       /\ StrRank(a.day_type) < StrRank(b.day_type)

\* ORDER BY day_type, hour: text compares bytewise, hour numerically
OrderByDayTypeHour(a, b) ==
    \/ StrRank(a.day_type) < StrRank(b.day_type)
    \/ /\ a.day_type = b.day_type
       /\ a.hour < b.hour

RECURSIVE InsertGroup(_, _)
InsertGroup(g, s) ==
    IF s = << >> THEN <<g>>
    ELSE IF OrderByDayTypeHour(g, Head(s)) THEN <<g>> \o s
         ELSE <<Head(s)>> \o InsertGroup(g, Tail(s))

RECURSIVE SortGroups(_)
SortGroups(s) == IF s = << >> THEN << >> ELSE InsertGroup(Head(s), SortGroups(Tail(s)))

\* the frame pd.read_sql_query returns; the third column is avg_rentals in
\* analysis.py and average_volume in thesis_analysis.py
TemporalQuery(t) ==
    LET g == SortGroups(GroupByHourDayType(t, << >>))
    IN [i \in 1..Len(g) |-> [hour |-> g[i].hour, day_type |-> g[i].day_type,
                             avg |-> Frac(g[i].sum, g[i].n)]]

----------------------------------------------------------------------------
\* df.groupby('weather_code')[['casual', 'registered']].mean()

RECURSIVE GroupByWeather(_, _)
GroupByWeather(t, acc) ==
    IF t = << >> THEN acc
    ELSE LET r == Head(t)
             hit == {i \in 1..Len(acc) : acc[i].weather_code = r.weather_code}
         IN IF hit = {}
            THEN GroupByWeather(Tail(t),
                    Append(acc, [weather_code |-> r.weather_code,
                                 casual |-> r.casual,
                                 registered |-> r.registered, n |-> 1]))
            ELSE LET i == CHOOSE j \in hit : TRUE
                 IN GroupByWeather(Tail(t),
                        [acc EXCEPT ![i].casual = @ + r.casual,
                                    ![i].registered = @ + r.registered,
                                    ![i].n = @ + 1])

\* groupby sorts the group keys (sort=True is the default)
RECURSIVE InsertWeather(_, _)
InsertWeather(g, s) ==
    IF s = << >> THEN <<g>>
    ELSE IF g.weather_code < Head(s).weather_code THEN <<g>> \o s
         ELSE <<Head(s)>> \o InsertWeather(g, Tail(s))

RECURSIVE SortWeather(_)
SortWeather(s) == IF s = << >> THEN << >> ELSE InsertWeather(Head(s), SortWeather(Tail(s)))

\* .sum() instead of .mean()
WeatherSum(df) ==
    LET g == SortWeather(GroupByWeather(df, << >>))
    IN [i \in 1..Len(g) |-> [weather_code |-> g[i].weather_code,
                             casual |-> Frac(g[i].casual, 1),
                             registered |-> Frac(g[i].registered, 1)]]

WeatherMean(df) ==
    LET g == SortWeather(GroupByWeather(df, << >>))
    IN [i \in 1..Len(g) |-> [weather_code |-> g[i].weather_code,
                             casual |-> Frac(g[i].casual, g[i].n),
                             registered |-> Frac(g[i].registered, g[i].n)]]

----------------------------------------------------------------------------
\* SELECT "Start Station", COUNT(*) as departures FROM raw_trips
\* GROUP BY "Start Station" ORDER BY departures DESC LIMIT 5

Limit == 5

\* ORDER BY departures ASC: the least used stations first
RECURSIVE BottomStations(_, _)
BottomStations(b, k) ==
    IF k = 0 \/ BagToSet(b) = {} THEN {<< >>}
    ELSE LET low == {x \in BagToSet(b) : \A y \in BagToSet(b) : b[x] <= b[y]}
         IN UNION {{<<[station |-> x, departures |-> b[x]]>> \o s :
                       s \in BottomStations([y \in BagToSet(b) \ {x} |-> b[y]], k - 1)} :
                   x \in low}

\* The order among stations with equal counts is not fixed by the query:
\* every order that is descending in departures is a possible answer.
RECURSIVE TopStations(_, _)
TopStations(b, k) ==
    IF k = 0 \/ BagToSet(b) = {} THEN {<< >>}
    ELSE LET top == {x \in BagToSet(b) : \A y \in BagToSet(b) : b[y] <= b[x]}
         IN UNION {{<<[station |-> x, departures |-> b[x]]>> \o s :
                       s \in TopStations([y \in BagToSet(b) \ {x} |-> b[y]], k - 1)} :
                   x \in top}

SpatialQuery(b) == TopStations(b, Limit)

----------------------------------------------------------------------------
\* plt.savefig(path): the write fails when the path cannot be written or its
\* directory is absent
CanSave(path) ==
    /\ path \notin unwritable
    /\ path \in {TemporalPng, UserPng} => outputDir

Enter(step) == [calls EXCEPT ![step] = @ + 1]

----------------------------------------------------------------------------
\* main.py

\* main lines 7-15: create 'output' when absent, construct the loader
MainStart ==
    /\ mpc = "start"
    /\ outputDir' = TRUE
    /\ mpc' = "load"
    /\ UNCHANGED <<hourlyExists, raw, unwritable, tripsPath, tripsExists,
                   trips, colorArg, merr, mdf, mdb, mTemporal, mWeather,
                   thesisVars, files, calls>>

\* main line 18: BikeDataLoader.load_and_clean
load_and_clean ==
    /\ mpc = "load"
    /\ calls' = Enter("load_and_clean")
    /\ IF ~hourlyExists
       THEN /\ merr' = "FileNotFoundError"
            /\ mpc' = "error"
            /\ mdf' = mdf
       ELSE IF ~DatesParse(raw)
       THEN /\ merr' = "ParserError"
            /\ mpc' = "error"
            /\ mdf' = mdf
       ELSE /\ mdf' = Some(LoaderClean(raw))
            /\ mpc' = "analyzer"
            /\ merr' = merr
    /\ UNCHANGED <<envVars, mdb, mTemporal, mWeather, thesisVars, files>>

\* main line 21: BikeAnalyzer.__init__ and _setup_db
setup_db ==
    /\ mpc = "analyzer"
    /\ calls' = Enter("_setup_db")
    /\ mdb' = Some(AnalyzerToSql(Get(mdf)))
    /\ mpc' = "temporal"
    /\ UNCHANGED <<envVars, merr, mdf, mTemporal, mWeather, thesisVars, files>>

\* plot_temporal_trends with the savefig error swallowed (try/except pass):
\* main goes on to the next render
plot_temporal_trends_swallow ==
    /\ mpc = "temporal"
    /\ calls' = Enter("plot_temporal_trends")
    /\ mTemporal' = Some(TemporalQuery(Get(mdb)))
    /\ files' = IF CanSave(TemporalPng) THEN files \cup {TemporalPng} ELSE files
    /\ mpc' = "user"
    /\ UNCHANGED <<envVars, merr, mdf, mdb, mWeather, thesisVars>>

\* main line 25: BikeAnalyzer.plot_temporal_trends; an exception of savefig
\* leaves the method and main
plot_temporal_trends ==
    /\ mpc = "temporal"
    /\ calls' = Enter("plot_temporal_trends")
    /\ mTemporal' = Some(TemporalQuery(Get(mdb)))
    /\ IF CanSave(TemporalPng)
       THEN /\ files' = files \cup {TemporalPng}
            /\ mpc' = "user"
            /\ merr' = merr
       ELSE /\ files' = files
            /\ mpc' = "error"
            /\ merr' = "OSError"
    /\ UNCHANGED <<envVars, mdf, mdb, mWeather, thesisVars>>

\* main line 26: BikeAnalyzer.plot_user_segmentation
plot_user_segmentation ==
    /\ mpc = "user"
    /\ calls' = Enter("plot_user_segmentation")
    /\ mWeather' = Some(WeatherMean(Get(mdf)))
    /\ IF CanSave(UserPng)
       THEN /\ files' = files \cup {UserPng}
            /\ mpc' = "done"
            /\ merr' = merr
       ELSE /\ files' = files
            /\ mpc' = "error"
            /\ merr' = "OSError"
    /\ UNCHANGED <<envVars, mdf, mdb, mTemporal, thesisVars>>

MainEnded == mpc \in {"done", "error"}

----------------------------------------------------------------------------
\* thesis_analysis.py.  The two scripts are separate programs: they read the
\* same input files and write different chart files.  A behaviour runs
\* main.py to its end and then thesis_analysis.py.

\* The interpreter compiles the file, then lines 135-139 construct the
\* pipeline.  Line 102 as it stands is rejected by the compiler.
ThesisStart ==
    /\ MainEnded
    /\ tpc = "start"
    /\ IF colorArg = "missing"
       THEN /\ terr' = "SyntaxError"
            /\ tpc' = "error"
       ELSE /\ terr' = terr
            /\ tpc' = "process"
    /\ UNCHANGED <<envVars, mainVars, tdf, tdb, tTemporal, tWeather,
                   spatialStatus, spatialResult, files, calls>>

\* line 141: BikeDataPipeline.process_data; a missing file prints a message
\* and returns
process_data ==
    /\ tpc = "process"
    /\ calls' = Enter("process_data")
    /\ IF ~hourlyExists
       THEN /\ tdf' = tdf
            /\ tdb' = tdb
       ELSE /\ tdf' = Some(PipelineClean(raw))
            /\ tdb' = Some(PipelineToSql(PipelineClean(raw)))
    /\ tpc' = "temporal"
    /\ UNCHANGED <<envVars, mainVars, terr, tTemporal, tWeather,
                   spatialStatus, spatialResult, files>>

\* line 142: BikeDataPipeline.run_temporal_analysis; the query fails when
\* the table rentals was never created
run_temporal_analysis ==
    /\ tpc = "temporal"
    /\ calls' = Enter("run_temporal_analysis")
    /\ IF tdb = Unset
       THEN /\ terr' = "DatabaseError"
            /\ tpc' = "error"
            /\ tTemporal' = tTemporal
            /\ files' = files
       ELSE /\ tTemporal' = Some(TemporalQuery(Get(tdb)))
            /\ IF CanSave(VizTemporalPng)
               THEN /\ files' = files \cup {VizTemporalPng}
                    /\ tpc' = "weather"
                    /\ terr' = terr
               ELSE /\ files' = files
                    /\ tpc' = "error"
                    /\ terr' = "OSError"
    /\ UNCHANGED <<envVars, mainVars, tdf, tdb, tWeather, spatialStatus,
                   spatialResult>>

\* line 143: BikeDataPipeline.run_weather_impact_study
run_weather_impact_study ==
    /\ tpc = "weather"
    /\ calls' = Enter("run_weather_impact_study")
    /\ IF tdf = Unset
       THEN /\ terr' = "AttributeError"
            /\ tpc' = "error"
            /\ tWeather' = tWeather
            /\ files' = files
       ELSE /\ tWeather' = Some(WeatherMean(Get(tdf)))
            /\ IF CanSave(VizWeatherPng)
               THEN /\ files' = files \cup {VizWeatherPng}
                    /\ tpc' = "spatial"
                    /\ terr' = terr
               ELSE /\ files' = files
                    /\ tpc' = "error"
                    /\ terr' = "OSError"
    /\ UNCHANGED <<envVars, mainVars, tdf, tdb, tTemporal, spatialStatus,
                   spatialResult>>

\* lines 144-145: BikeDataPipeline.run_spatial_analysis, then the last print
run_spatial_analysis ==
    /\ tpc = "spatial"
    /\ calls' = Enter("run_spatial_analysis")
    /\ IF tripsPath # None /\ tripsExists
       THEN /\ spatialStatus' = "loaded"
            /\ \E res \in SpatialQuery(trips) : spatialResult' = Some(res)
       ELSE /\ spatialStatus' = "skipped"
            /\ spatialResult' = Some(<< >>)
    /\ tpc' = "done"
    /\ UNCHANGED <<envVars, mainVars, terr, tdf, tdb, tTemporal, tWeather,
                   files>>

ThesisEnded == tpc \in {"done", "error"}

----------------------------------------------------------------------------
\* Input tables

DefaultRow ==
    [dteday |-> "2011-01-01", yr |-> 0, mnth |-> 1, hr |-> 0,
     weathersit |-> 1, cnt |-> 16, hum |-> 81, atemp |-> 29,
     workingday |-> <<0>>, temp |-> 24, windspeed |-> 9,
     casual |-> 3, registered |-> 13]

Hours == {0, 1}
Rentals == {10, 20, 30}
WeatherCodes == {1, 2, 3}
Casuals == {5, 15}
Registereds == {10, 20}
Flags == {NaN, <<0>>, <<1>>}
Dates == {"2012-12-31", "01/13/2011x"}
\* <<temp, hum, windspeed>> in hundredths
Measures == {<<24, 81, 9>>, <<50, 30, 25>>}

\* rows that differ in the columns of the temporal query
RowsTemporal ==
    {[DefaultRow EXCEPT !.hr = h, !.workingday = <<w>>, !.cnt = c] :
        h \in Hours, w \in {0, 1}, c \in Rentals}

\* rows that differ in the columns of the weather group-by
RowsWeather ==
    {[DefaultRow EXCEPT !.weathersit = k, !.casual = c, !.registered = g] :
        k \in WeatherCodes, c \in Casuals, g \in Registereds}

\* rows that differ in the columns the loader converts
RowsLoad ==
    {[DefaultRow EXCEPT !.workingday = w, !.dteday = d, !.temp = m[1],
                        !.hum = m[2], !.windspeed = m[3]] :
        w \in Flags, d \in Dates, m \in Measures}

Tables(rows) == UNION {[1..n -> rows] : n \in 1..MaxRows}

Stations == 1..NumStations

\* bags of at most MaxTrips station names
TripBags ==
    UNION {{b \in [S -> 1..MaxTrips] : BagCardinality(b) <= MaxTrips} :
           S \in SUBSET Stations}

InitProgram ==
    /\ mpc = "start" /\ merr = None /\ mdf = Unset /\ mdb = Unset
    /\ mTemporal = Unset /\ mWeather = Unset
    /\ tpc = "start" /\ terr = None /\ tdf = Unset /\ tdb = Unset
    /\ tTemporal = Unset /\ tWeather = Unset
    /\ spatialStatus = None /\ spatialResult = Unset
    /\ files = {}
    /\ calls = [s \in Steps |-> 0]

\* a run on a readable hourly file whose rows come from the set rows
InitData(rows) ==
    /\ hourlyExists = TRUE
    /\ raw \in Tables(rows)
    /\ outputDir = FALSE
    /\ unwritable = {}
    /\ tripsPath = "trips.csv"
    /\ tripsExists = FALSE
    /\ trips = EmptyBag
    /\ colorArg \in {"missing", "given"}
    /\ InitProgram

Next ==
    \/ MainStart
    \/ load_and_clean
    \/ setup_db
    \/ plot_temporal_trends
    \/ plot_user_segmentation
    \/ ThesisStart
    \/ process_data
    \/ run_temporal_analysis
    \/ run_weather_impact_study
    \/ run_spatial_analysis

\* tables that vary in hour, working day and rental count
InitTemporal == InitData(RowsTemporal)
SpecTemporal == InitTemporal /\ [][Next]_vars

\* tables that vary in weather code, casual and registered counts
InitWeather == InitData(RowsWeather)
SpecWeather == InitWeather /\ [][Next]_vars

\* tables that vary in working-day flag (missing included), date text and
\* the normalised measurements
InitLoad == InitData(RowsLoad)
SpecLoad == InitLoad /\ [][Next]_vars

\* runs that vary in the files present and in the writable chart paths
RowsRun == {DefaultRow, [DefaultRow EXCEPT !.hr = 1, !.workingday = <<1>>, !.weathersit = 2]}
SomeTrips == (1 :> 2) @@ (2 :> 1)
InitRun ==
    /\ hourlyExists \in BOOLEAN
    /\ raw \in IF hourlyExists THEN Tables(RowsRun) ELSE {<< >>}
    /\ outputDir \in BOOLEAN
    /\ unwritable \in SUBSET Paths
    /\ tripsPath \in {None, "trips.csv"}
    /\ tripsExists \in BOOLEAN
    /\ trips = IF tripsExists THEN SomeTrips ELSE EmptyBag
    /\ colorArg \in {"missing", "given"}
    /\ InitProgram
SpecRun == InitRun /\ [][Next]_vars

\* runs that vary in the content of the trips file
InitSpatial ==
    /\ hourlyExists = TRUE
    /\ raw = <<DefaultRow>>
    /\ outputDir = FALSE
    /\ unwritable = {}
    /\ tripsPath \in {None, "trips.csv"}
    /\ tripsExists \in BOOLEAN
    /\ trips \in IF tripsExists THEN TripBags ELSE {EmptyBag}
    /\ colorArg \in {"missing", "given"}
    /\ InitProgram
SpecSpatial == InitSpatial /\ [][Next]_vars

----------------------------------------------------------------------------
\* Helpers of the properties

\* the rows of table t in the group (h, d) of the temporal query
GroupRows(t, h, d) == {i \in 1..Len(t) : t[i].hour = h /\ t[i].day_type = d}

\* the rows of table t with weather code k
CodeRows(t, k) == {i \in 1..Len(t) : t[i].weather_code = k}

RECURSIVE SumOf(_, _, _)
SumOf(t, col, I) ==
    IF I = {} THEN 0
    ELSE LET i == CHOOSE j \in I : TRUE IN t[i][col] + SumOf(t, col, I \ {i})

\* the fraction f is the mean of column col over the non-empty row set I
IsMean(f, t, col, I) == f[2] > 0 /\ f[1] * Cardinality(I) = f[2] * SumOf(t, col, I)

\* agg is a correct temporal aggregate of the cleaned table t
IsTemporalAggregate(agg, t) ==
    /\ \A i \in 1..Len(agg) : GroupRows(t, agg[i].hour, agg[i].day_type) # {}
    /\ \A r \in 1..Len(t) :
          Cardinality({i \in 1..Len(agg) : agg[i].hour = t[r].hour
                                           /\ agg[i].day_type = t[r].day_type}) = 1
    /\ \A i \in 1..Len(agg) :
          IsMean(agg[i].avg, t, "total_rentals",
                 GroupRows(t, agg[i].hour, agg[i].day_type))
    /\ \A i, j \in 1..Len(agg) : i < j =>
          \/ agg[i].day_type = WeekendHoliday /\ agg[j].day_type = WorkingDay
          \/ agg[i].day_type = agg[j].day_type /\ agg[i].hour < agg[j].hour

\* agg is a correct weather aggregate of the cleaned table t
IsWeatherAggregate(agg, t) ==
    /\ \A i \in 1..Len(agg) : CodeRows(t, agg[i].weather_code) # {}
    /\ \A r \in 1..Len(t) :
          Cardinality({i \in 1..Len(agg) :
                          agg[i].weather_code = t[r].weather_code}) = 1
    /\ \A i \in 1..Len(agg) :
          /\ IsMean(agg[i].casual, t, "casual", CodeRows(t, agg[i].weather_code))
          /\ IsMean(agg[i].registered, t, "registered",
                    CodeRows(t, agg[i].weather_code))
    /\ \A i, j \in 1..Len(agg) : i < j => agg[i].weather_code < agg[j].weather_code

----------------------------------------------------------------------------
\* C1: the temporal aggregate computed by plot_temporal_trends (and by
\* run_temporal_analysis) has exactly one row per (hour, day_type) pair that
\* occurs in the cleaned table and none for a pair that does not occur, each
\* row holds the arithmetic mean of total_rentals over the rows of its pair,
\* and the rows are ordered by day_type (string order), then hour.
C1_TemporalAggregate ==
    /\ mTemporal # Unset => IsTemporalAggregate(Get(mTemporal), Get(mdf))
    /\ tTemporal # Unset => IsTemporalAggregate(Get(tTemporal), Get(tdf))

\* rentals 10, 20, 30 in one group average to 20, next to a second group
C1_Witness ==
    /\ mTemporal # Unset
    /\ \E i \in 1..Len(Get(mTemporal)) :
          LET a == Get(mTemporal)[i]
              I == GroupRows(Get(mdf), a.hour, a.day_type)
          IN /\ {Get(mdf)[r].total_rentals : r \in I} = {10, 20, 30}
             /\ a.avg = <<20, 1>>

\* two day types and two hours appear in the aggregate, in the query's order
C1_WitnessOrder ==
    /\ mTemporal # Unset
    /\ Len(Get(mTemporal)) = 3
    /\ Get(mTemporal)[2].day_type = WeekendHoliday
    /\ Get(mTemporal)[2].hour = 1
    /\ Get(mTemporal)[3].day_type = WorkingDay
    /\ Get(mTemporal)[3].hour = 0

\* C2: the weather aggregate computed by plot_user_segmentation (and by
\* run_weather_impact_study) has exactly one row per weather_code present,
\* in ascending weather_code order, holding the mean of casual and the mean
\* of registered over the rows of that code.
C2_WeatherAggregate ==
    /\ mWeather # Unset => IsWeatherAggregate(Get(mWeather), Get(mdf))
    /\ tWeather # Unset => IsWeatherAggregate(Get(tWeather), Get(tdf))

\* code 1 with casual 5, 15 and registered 10, 20 gives 10 and 15, after a
\* row of a larger code that comes first in the table
C2_Witness ==
    /\ mWeather # Unset
    /\ Len(raw) = 3
    /\ raw[1].weathersit = 2
    /\ {<<raw[i].casual, raw[i].registered>> : i \in CodeRows(Get(mdf), 1)}
          = {<<5, 10>>, <<15, 20>>}
    /\ Get(mWeather)[1] = [weather_code |-> 1, casual |-> <<10, 1>>,
                           registered |-> <<15, 1>>]

\* C3: in the table load_and_clean returns (and in the one process_data
\* builds) day_type is "Working Day" exactly when the working-day flag is 1
\* and "Weekend/Holiday" for every other value, a missing one included.
C3_DayType ==
    /\ mdf # Unset =>
          \A i \in 1..Len(Get(mdf)) :
             LET r == Get(mdf)[i]
             IN /\ r.day_type \in {WorkingDay, WeekendHoliday}
                /\ r.day_type = WorkingDay <=> r.is_working_day = <<1>>
    /\ tdf # Unset =>
          \A i \in 1..Len(Get(tdf)) :
             LET r == Get(tdf)[i]
             IN /\ r.day_type \in {WorkingDay, WeekendHoliday}
                /\ r.day_type = WorkingDay <=> r.workingday = <<1>>

\* a loaded table with a flag 1, a flag 0 and a missing flag
C3_Witness ==
    /\ mdf # Unset
    /\ {Get(mdf)[i].is_working_day : i \in 1..Len(Get(mdf))} = {NaN, <<0>>, <<1>>}
    /\ \E i \in 1..Len(Get(mdf)) :
          Get(mdf)[i].is_working_day = NaN /\ Get(mdf)[i].day_type = WeekendHoliday

\* C4: in the table load_and_clean returns temp_c = temp * 41,
\* humidity_real = hum * 100 and wind_speed_real = windspeed * 67, and the
\* columns temp, humidity_norm and windspeed keep the source values.
C4_Denormalize ==
    mdf # Unset =>
       /\ Len(Get(mdf)) = Len(raw)
       /\ \A i \in 1..Len(raw) :
             LET r == Get(mdf)[i]
             IN /\ r.temp_c = raw[i].temp * 41
                /\ r.humidity_real = raw[i].hum * 100
                /\ r.wind_speed_real = raw[i].windspeed * 67
                /\ r.temp = raw[i].temp
                /\ r.humidity_norm = raw[i].hum
                /\ r.windspeed = raw[i].windspeed

\* a loaded table holding both measurement triples
C4_Witness ==
    /\ mdf # Unset
    /\ {<<raw[i].temp, raw[i].hum, raw[i].windspeed>> : i \in 1..Len(raw)} = Measures
    /\ \E i \in 1..Len(raw) : Get(mdf)[i].temp_c = 2050 /\ Get(mdf)[i].wind_speed_real = 1675

\* C5: the table load_and_clean returns has as many rows as the input and
\* row i of the output is row i of the input: no row is dropped, added or
\* moved, rows with missing values included.
C5_RowsPreserved ==
    mdf # Unset =>
       /\ Len(Get(mdf)) = Len(raw)
       /\ \A i \in 1..Len(raw) :
             LET r == Get(mdf)[i]
             IN /\ r.date = ParseDate(raw[i].dteday)
                /\ r.hour = raw[i].hr
                /\ r.is_working_day = raw[i].workingday
                /\ r.weather_code = raw[i].weathersit
                /\ r.total_rentals = raw[i].cnt
                /\ r.casual = raw[i].casual
                /\ r.registered = raw[i].registered
                /\ r.temp = raw[i].temp
                /\ r.humidity_norm = raw[i].hum
                /\ r.windspeed = raw[i].windspeed

\* three different rows were loaded, a row with a missing value in the middle
C5_Witness ==
    /\ mdf # Unset
    /\ Len(raw) = 3
    /\ raw[1] # raw[2] /\ raw[2] # raw[3] /\ raw[1] # raw[3]
    /\ raw[2].workingday = NaN
    /\ mpc = "done"

----------------------------------------------------------------------------
AggregationSteps == {"_setup_db", "plot_temporal_trends",
                     "plot_user_segmentation", "run_temporal_analysis",
                     "run_weather_impact_study"}

\* C6: when the hourly file does not exist, loading raises a missing-file
\* error that ends the run in an error state (in main.py's flow and in
\* thesis_analysis.py's flow), no aggregation or render step runs afterwards
\* and no chart file is written.  Stated for the runs in which the
\* interpreter accepts thesis_analysis.py, so that process_data is reached.
C6_MissingFileStopsRun ==
    (~hourlyExists /\ colorArg = "given") =>
       /\ calls["load_and_clean"] > 0 => mpc = "error" /\ merr = "FileNotFoundError"
       /\ calls["process_data"] > 0 => tpc = "error" /\ terr = "FileNotFoundError"
       /\ ThesisEnded => terr = "FileNotFoundError"
       /\ \A s \in AggregationSteps : calls[s] = 0
       /\ files = {}

\* the part of C6 that is about main.py's flow
C6_MainMissingFile ==
    (~hourlyExists /\ calls["load_and_clean"] > 0) =>
       /\ mpc = "error" /\ merr = "FileNotFoundError"
       /\ \A s \in {"_setup_db", "plot_temporal_trends", "plot_user_segmentation"} :
             calls[s] = 0
       /\ files \cap {TemporalPng, UserPng} = {}

\* the charts of thesis_analysis.py can be written
VizWritable == unwritable \cap {VizTemporalPng, VizWeatherPng} = {}

TripsPresent == tripsPath # None /\ tripsExists

\* C7: run_spatial_analysis gives an empty result with the status skipped,
\* and no error, when the trips path is unset or does not exist; when the
\* file exists it gives the stations with their row counts, sorted by count
\* descending, the 5 most used ones, or all of them when fewer than 5.
C7_TopStartStations ==
    spatialStatus # None =>
       IF ~TripsPresent
       THEN /\ spatialStatus = "skipped"
            /\ spatialResult = Some(<< >>)
            /\ tpc = "done" /\ terr = None
       ELSE /\ spatialStatus = "loaded"
            /\ LET r == Get(spatialResult)
                   S == BagToSet(trips)
                   in == {r[i].station : i \in 1..Len(r)}
               IN /\ Len(r) = IF Cardinality(S) < 5 THEN Cardinality(S) ELSE 5
                  /\ \A i \in 1..Len(r) :
                        r[i].station \in S /\ r[i].departures = CopiesIn(r[i].station, trips)
                  /\ Cardinality(in) = Len(r)
                  /\ \A i, j \in 1..Len(r) : i < j => r[i].departures >= r[j].departures
                  /\ \A x \in S \ in : \A i \in 1..Len(r) :
                        CopiesIn(x, trips) <= r[i].departures

\* six stations, one of them used twice: five are returned, the busiest first
C7_Witness ==
    /\ spatialStatus = "loaded"
    /\ Cardinality(BagToSet(trips)) = 6
    /\ Len(Get(spatialResult)) = 5
    /\ Get(spatialResult)[1].departures = 2
    /\ Get(spatialResult)[5].departures = 1

\* the skip path: the path is set and the file is absent
C7_WitnessSkipped ==
    /\ spatialStatus = "skipped"
    /\ tripsPath # None
    /\ ~tripsExists

\* C8: in the flow of thesis_analysis.py the spatial step is reached for
\* every combination of hourly-file and trips-file presence, whether it loads
\* or skips depends on the trips-file check alone, and an absent trips file
\* never ends the run in an error state.  Stated for the runs in which the
\* interpreter accepts thesis_analysis.py and both of its charts can be
\* written.
C8_SpatialIndependent ==
    /\ (ThesisEnded /\ VizWritable /\ colorArg = "given") =>
          /\ calls["run_spatial_analysis"] = 1
          /\ tpc = "done"
    /\ spatialStatus # None => (spatialStatus = "loaded" <=> TripsPresent)

\* C9 as stated: a failed render is not retried, nothing written before is
\* rolled back, and the other render is still called and writes its chart.
C9_RenderFailureIsolated ==
    (MainEnded /\ mdb # Unset) =>
       /\ calls["plot_temporal_trends"] = 1
       /\ calls["plot_user_segmentation"] = 1
       /\ TemporalPng \in files <=> CanSave(TemporalPng)
       /\ UserPng \in files <=> CanSave(UserPng)
       /\ mdf = Some(LoaderClean(raw))

\* C9, amended: a failed render is not retried and nothing written before is
\* rolled back; a failure of plot_user_segmentation leaves the temporal chart
\* in place; a failure of plot_temporal_trends leaves main, so that
\* plot_user_segmentation is not called and its chart is not written.
C9_RenderFailureEndsMain ==
    (MainEnded /\ mdb # Unset) =>
       /\ calls["plot_temporal_trends"] = 1
       /\ calls["plot_user_segmentation"] = (IF CanSave(TemporalPng) THEN 1 ELSE 0)
       /\ TemporalPng \in files <=> CanSave(TemporalPng)
       /\ UserPng \in files <=> (CanSave(TemporalPng) /\ CanSave(UserPng))
       /\ mpc = "error" <=> ~(CanSave(TemporalPng) /\ CanSave(UserPng))
       /\ mpc = "error" => merr = "OSError"
       /\ mdf = Some(LoaderClean(raw))

\* the temporal render failed while the other chart path is writable
C9_Witness ==
    /\ mpc = "error" /\ merr = "OSError"
    /\ calls["plot_temporal_trends"] = 1
    /\ TemporalPng \in unwritable
    /\ UserPng \notin unwritable
    /\ calls["plot_user_segmentation"] = 0

\* the second render failed and the first chart is still there
C9_WitnessSecond ==
    /\ mpc = "error" /\ merr = "OSError"
    /\ calls["plot_user_segmentation"] = 1
    /\ files = {TemporalPng}

\* C10: on every table both pipelines load, load_and_clean and process_data
\* give every row the same day_type, temp_c, humidity_real and
\* wind_speed_real, and the two temporal aggregates and the two weather
\* aggregates are equal, row by row.
C10_PipelinesAgree ==
    /\ (mdf # Unset /\ tdf # Unset) =>
          /\ Len(Get(mdf)) = Len(Get(tdf))
          /\ \A i \in 1..Len(Get(mdf)) :
                /\ Get(mdf)[i].day_type = Get(tdf)[i].day_type
                /\ Get(mdf)[i].temp_c = Get(tdf)[i].temp_c
                /\ Get(mdf)[i].humidity_real = Get(tdf)[i].humidity_real
                /\ Get(mdf)[i].wind_speed_real = Get(tdf)[i].wind_speed_real
    /\ (mTemporal # Unset /\ tTemporal # Unset) => Get(mTemporal) = Get(tTemporal)
    /\ (mWeather # Unset /\ tWeather # Unset) => Get(mWeather) = Get(tWeather)

\* both pipelines ran to the end on a table with both day types
C10_Witness ==
    /\ mpc = "done" /\ tpc = "done"
    /\ Len(Get(tTemporal)) = 3
    /\ Get(tTemporal)[1].day_type = WeekendHoliday
    /\ Get(tTemporal)[3].day_type = WorkingDay
    /\ tWeather # Unset /\ mWeather # Unset

====
